---- MODULE Spec2Model ----
(***************************************************************************)
(* Model of the static site generator of otrv.github.io (src/main.go).     *)
(*                                                                         *)
(* Strings are sequences of one-character strings, so that trimming,       *)
(* suffix tests, date parsing and date formatting are computed and not     *)
(* assumed.  A time.Time is the record [year, month, day, sod] (sod is the *)
(* second of the day, UTC).  The output directory "public" is a function   *)
(* from path to the data the template was executed with.                   *)
(***************************************************************************)
EXTENDS Integers, Sequences, FiniteSets, TLC

(***************************************************************************)
(* Bounds of the model.                                                    *)
(***************************************************************************)
\* largest number of entries of the posts directory
MaxEntries == 3
\* largest number of entries of the posts directory in the re-run model
MaxRerunEntries == 1

(***************************************************************************)
(* Strings.                                                                *)
(***************************************************************************)
Digits == <<"0", "1", "2", "3", "4", "5", "6", "7", "8", "9">>

IsDigit(c) == \E k \in 1..10 : Digits[k] = c

DigitVal(c) == (CHOOSE k \in 1..10 : Digits[k] = c) - 1

\* unicode.IsSpace restricted to the characters of the model
IsSpace(c) == c \in {" ", "\t"}

HasSuffix(s, suffix) ==
    /\ Len(s) >= Len(suffix)
    /\ SubSeq(s, Len(s) - Len(suffix) + 1, Len(s)) = suffix

TrimSuffix(s, suffix) ==
    IF HasSuffix(s, suffix) THEN SubSeq(s, 1, Len(s) - Len(suffix)) ELSE s

RECURSIVE TrimLeft(_)
TrimLeft(s) ==
    IF s # <<>> /\ IsSpace(Head(s)) THEN TrimLeft(Tail(s)) ELSE s

RECURSIVE TrimRight(_)
TrimRight(s) ==
    IF s # <<>> /\ IsSpace(s[Len(s)]) THEN TrimRight(SubSeq(s, 1, Len(s) - 1)) ELSE s

TrimSpace(s) == TrimRight(TrimLeft(s))

mdExt == <<".", "m", "d">>
htmlExt == <<".", "h", "t", "m", "l">>

(***************************************************************************)
(* Time: time.Parse under dateLayout, Time.After, Time.Format.             *)
(***************************************************************************)
IsLeap(y) == (y % 4 = 0) /\ ((y % 100 # 0) \/ (y % 400 = 0))

daysIn(m, y) ==
    IF m = 2 THEN (IF IsLeap(y) THEN 29 ELSE 28)
    ELSE IF m \in {4, 6, 9, 11} THEN 30 ELSE 31

Num2(s, k) == 10 * DigitVal(s[k]) + DigitVal(s[k + 1])

Num4(s, k) == 100 * Num2(s, k) + Num2(s, k + 2)

\* time.Parse("2006-01-02", s): four digits, "-", two digits, "-", two
\* digits and nothing else; the month in 1..12, the day within the month.
dateLayoutMatches(s) ==
    /\ Len(s) = 10
    /\ \A k \in {1, 2, 3, 4, 6, 7, 9, 10} : IsDigit(s[k])
    /\ s[5] = "-"
    /\ s[8] = "-"
    /\ Num2(s, 6) \in 1..12
    /\ Num2(s, 9) >= 1
    /\ Num2(s, 9) <= daysIn(Num2(s, 6), Num4(s, 1))

timeParse(s) ==
    IF dateLayoutMatches(s)
    THEN [ok |-> TRUE,
          t |-> [year |-> Num4(s, 1), month |-> Num2(s, 6), day |-> Num2(s, 9), sod |-> 0]]
    ELSE [ok |-> FALSE, t |-> [year |-> 1, month |-> 1, day |-> 1, sod |-> 0]]

\* the zero value of time.Time: January 1, year 1, 00:00:00 UTC
ZeroTime == [year |-> 1, month |-> 1, day |-> 1, sod |-> 0]

IsZero(t) == t = ZeroTime

\* t.After(u)
After(t, u) ==
    \/ t.year > u.year
    \/ t.year = u.year /\ t.month > u.month
    \/ t.year = u.year /\ t.month = u.month /\ t.day > u.day
    \/ t.year = u.year /\ t.month = u.month /\ t.day = u.day /\ t.sod > u.sod

Pad2(n) == <<Digits[((n \div 10) % 10) + 1], Digits[(n % 10) + 1]>>

Pad4(n) == Pad2(n \div 100) \o Pad2(n % 100)

\* t.Format("2006-01-02")
FormatDate(t) == Pad4(t.year) \o <<"-">> \o Pad2(t.month) \o <<"-">> \o Pad2(t.day)

\* t.Format(time.RFC3339) of a UTC time
FormatRFC3339(t) ==
    FormatDate(t) \o <<"T">> \o Pad2(t.sod \div 3600) \o <<":">>
        \o Pad2((t.sod \div 60) % 60) \o <<":">> \o Pad2(t.sod % 60) \o <<"Z">>

DateISO(p) == FormatDate(p.Date)

DateRFC3339(p) == FormatRFC3339(p.Date)

(***************************************************************************)
(* Errors.                                                                 *)
(***************************************************************************)
NoErr == [kind |-> "nil"]

(***************************************************************************)
(* parsePost.  The content of a source file is                             *)
(*   [fm, title, date, render]                                             *)
(* fm: "none" (no front matter), "invalid" (the YAML does not decode) or   *)
(* "ok"; title and date are YAML fields [kind, text] with kind "absent",   *)
(* "plain" or "quoted"; render tells whether the renderer succeeds.        *)
(***************************************************************************)
\* d.Decode(&meta) for one string field: an absent key leaves the zero
\* value "", a plain scalar has no surrounding white space, a quoted scalar
\* is taken as it stands.
yamlString(field) ==
    IF field.kind = "absent" THEN <<>>
    ELSE IF field.kind = "plain" THEN TrimSpace(field.text)
    ELSE field.text

postMeta(content) ==
    [Title |-> yamlString(content.title), Date |-> yamlString(content.date)]

titleMissing(meta) == meta.Title = <<>>

\* the name cut at its first dot instead of at the extension
slugOfFirstDot(filename) ==
    IF \E k \in 1..Len(filename) : filename[k] = "."
    THEN SubSeq(filename, 1,
                (CHOOSE k \in 1..Len(filename) :
                    filename[k] = "." /\ \A j \in 1..(k - 1) : filename[j] # ".") - 1)
    ELSE filename

\* the stem lowercased as well
slugOfLowered(filename) ==
    LET stem == TrimSuffix(filename, mdExt)
    IN  [k \in 1..Len(stem) |-> IF stem[k] = "B" THEN "b" ELSE stem[k]]

slugOf(filename) == TrimSuffix(filename, mdExt)

\* parsePost with the error of time.Parse dropped
parsePostDateUnchecked(filename, content) ==
    IF content.fm = "none"
    THEN [err |-> [kind |-> "missing front matter", file |-> filename]]
    ELSE IF content.fm = "invalid"
    THEN [err |-> [kind |-> "invalid front matter", file |-> filename]]
    ELSE LET meta == postMeta(content)
             parsed == timeParse(meta.Date)
         IN  IF titleMissing(meta)
             THEN [err |-> [kind |-> "missing title", file |-> filename]]
             ELSE IF ~content.render
             THEN [err |-> [kind |-> "render"]]
             ELSE [err |-> NoErr,
                   post |-> [Title |-> meta.Title, Date |-> parsed.t,
                             Slug |-> slugOf(filename)]]

parsePost(filename, content) ==
    IF content.fm = "none"
    THEN [err |-> [kind |-> "missing front matter", file |-> filename]]
    ELSE IF content.fm = "invalid"
    THEN [err |-> [kind |-> "invalid front matter", file |-> filename]]
    ELSE LET meta == postMeta(content)
             parsed == timeParse(meta.Date)
         IN  IF titleMissing(meta)
             THEN [err |-> [kind |-> "missing title", file |-> filename]]
             ELSE IF ~parsed.ok
             THEN [err |-> [kind |-> "invalid date", raw |-> meta.Date, file |-> filename]]
             ELSE IF ~content.render
             THEN [err |-> [kind |-> "render"]]
             ELSE [err |-> NoErr,
                   post |-> [Title |-> meta.Title, Date |-> parsed.t,
                             Slug |-> slugOf(filename)]]

(***************************************************************************)
(* The file system the program reads: listings of posts/ and of static/.   *)
(* A directory entry is [name, isDir, readable, content].                  *)
(***************************************************************************)
Str_B_md    == <<"B", ".", "m", "d">>
Str_a_md    == <<"a", ".", "m", "d">>
Str_a_md_md == <<"a", ".", "m", "d", ".", "m", "d">>
Str_c_txt   == <<"c", ".", "t", "x", "t">>
Str_d_md    == <<"d", ".", "m", "d">>
Str_img     == <<"i", "m", "g">>
Str_s_css   == <<"s", ".", "c", "s", "s">>

postsDir  == <<"p", "o", "s", "t", "s">>
staticDir == <<"s", "t", "a", "t", "i", "c">>
publicDir == <<"p", "u", "b", "l", "i", "c">>

\* filepath.Join of a directory and a name that holds no separator
Join(dir, name) == dir \o <<"/">> \o name

Date_2025_01_01 == <<"2", "0", "2", "5", "-", "0", "1", "-", "0", "1">>
Date_2025_06_01 == <<"2", "0", "2", "5", "-", "0", "6", "-", "0", "1">>
Date_0001_01_01 == <<"0", "0", "0", "1", "-", "0", "1", "-", "0", "1">>
Date_2025_02_30 == <<"2", "0", "2", "5", "-", "0", "2", "-", "3", "0">>
Date_2025_6_1   == <<"2", "0", "2", "5", "-", "6", "-", "1">>

Absent    == [kind |-> "absent", text |-> <<>>]
Plain(t)  == [kind |-> "plain", text |-> t]
Quoted(t) == [kind |-> "quoted", text |-> t]

Title_Hi     == Plain(<<" ", "H", "i">>)
Title_Blank  == Quoted(<<" ", " ">>)
Title_Padded == Quoted(<<" ", "H", "i", " ">>)

Doc(title, date) == [fm |-> "ok", title |-> title, date |-> date, render |-> TRUE]

\* the contents a markdown file of the model can have
Contents ==
    { Doc(Title_Hi, Plain(Date_2025_01_01)),
      Doc(Title_Padded, Plain(Date_2025_06_01)),
      Doc(Title_Hi, Plain(Date_0001_01_01)),
      Doc(Absent, Plain(Date_2025_01_01)),
      Doc(Title_Blank, Plain(Date_2025_01_01)),
      Doc(Title_Hi, Absent),
      Doc(Title_Hi, Plain(Date_2025_02_30)),
      Doc(Title_Hi, Quoted(Date_2025_6_1)),
      Doc(Absent, Absent),
      [fm |-> "none", title |-> Absent, date |-> Absent, render |-> TRUE],
      [fm |-> "invalid", title |-> Absent, date |-> Absent, render |-> TRUE],
      [fm |-> "ok", title |-> Title_Hi, date |-> Plain(Date_2025_06_01), render |-> FALSE] }

NoContent == [fm |-> "none", title |-> Absent, date |-> Absent, render |-> TRUE]

\* the names a listing of posts/ draws from, in the order os.ReadDir
\* returns them (sorted by filename, bytewise)
PostNames == <<Str_B_md, Str_a_md, Str_a_md_md, Str_c_txt, Str_d_md>>

\* d.md is a subdirectory, c.txt a file that would parse, the other names are
\* markdown files in any of their states
EntryStates(k) ==
    IF k = 5
    THEN {[name |-> PostNames[k], isDir |-> TRUE, readable |-> FALSE, content |-> NoContent]}
    ELSE IF k = 4
    THEN {[name |-> PostNames[k], isDir |-> FALSE, readable |-> TRUE,
           content |-> Doc(Title_Hi, Plain(Date_2025_01_01))]}
    ELSE {[name |-> PostNames[k], isDir |-> FALSE, readable |-> TRUE, content |-> c] : c \in Contents}
         \cup {[name |-> PostNames[k], isDir |-> FALSE, readable |-> FALSE, content |-> NoContent]}

\* the strictly increasing index sequences of length n over 1..m
RECURSIVE Increasing(_, _)
Increasing(n, m) ==
    IF n = 0 THEN {<<>>}
    ELSE IF m = 0 THEN {}
    ELSE Increasing(n, m - 1) \cup {Append(q, m) : q \in Increasing(n - 1, m - 1)}

\* the listings whose entries carry the names ix, each in one of its states
RECURSIVE ListingsOf(_)
ListingsOf(ix) ==
    IF ix = <<>> THEN {<<>>}
    ELSE {<<e>> \o l : e \in EntryStates(Head(ix)), l \in ListingsOf(Tail(ix))}

\* the listings of at most max entries: a sorted choice of names
Listings(max) ==
    UNION { UNION {ListingsOf(ix) : ix \in Increasing(n, Len(PostNames))} : n \in 0..max }

StaticListings ==
    { <<>>,
      << [name |-> Str_img, isDir |-> TRUE, readable |-> FALSE],
         [name |-> Str_s_css, isDir |-> FALSE, readable |-> TRUE] >>,
      << [name |-> Str_s_css, isDir |-> FALSE, readable |-> FALSE] >> }

\* the values time.Now() returns
Clock == { [year |-> 2026, month |-> 3, day |-> 4, sod |-> 18367] }

(***************************************************************************)
(* parsePosts                                                              *)
(***************************************************************************)
\* the test of the extension dropped
skipEntryDirsOnly(entry) == entry.isDir

skipEntry(entry) == entry.isDir \/ ~HasSuffix(entry.name, mdExt)

\* the loop leaving out the files that fail instead of returning the error
RECURSIVE parsePostsLoopSkipBad(_, _, _, _, _)
parsePostsLoopSkipBad(entries, k, posts, read, parsed) ==
    IF k > Len(entries)
    THEN [posts |-> posts, err |-> NoErr, read |-> read, parsed |-> parsed]
    ELSE LET entry == entries[k] IN
         IF entry.isDir \/ ~HasSuffix(entry.name, mdExt)
         THEN parsePostsLoopSkipBad(entries, k + 1, posts, read, parsed)
         ELSE IF ~entry.readable
         THEN parsePostsLoopSkipBad(entries, k + 1, posts, Append(read, entry.name), parsed)
         ELSE LET r == parsePost(entry.name, entry.content) IN
              IF r.err # NoErr
              THEN parsePostsLoopSkipBad(entries, k + 1, posts, Append(read, entry.name),
                                         Append(parsed, entry.name))
              ELSE parsePostsLoopSkipBad(entries, k + 1, Append(posts, r.post),
                                         Append(read, entry.name), Append(parsed, entry.name))

\* the loop of parsePosts from entry k on; read and parsed list the names
\* handed to os.ReadFile and to parsePost so far
RECURSIVE parsePostsLoop(_, _, _, _, _)
parsePostsLoop(entries, k, posts, read, parsed) ==
    IF k > Len(entries)
    THEN [posts |-> posts, err |-> NoErr, read |-> read, parsed |-> parsed]
    ELSE LET entry == entries[k] IN
         IF skipEntry(entry)
         THEN parsePostsLoop(entries, k + 1, posts, read, parsed)
         ELSE IF ~entry.readable
         THEN [posts |-> <<>>,
               err |-> [kind |-> "read post", path |-> Join(postsDir, entry.name)],
               read |-> Append(read, entry.name), parsed |-> parsed]
         ELSE LET r == parsePost(entry.name, entry.content) IN
              IF r.err # NoErr
              THEN [posts |-> <<>>,
                    err |-> [kind |-> "parse post", name |-> entry.name, cause |-> r.err],
                    read |-> Append(read, entry.name),
                    parsed |-> Append(parsed, entry.name)]
              ELSE parsePostsLoop(entries, k + 1, Append(posts, r.post),
                                  Append(read, entry.name), Append(parsed, entry.name))

parsePosts(entries) == parsePostsLoop(entries, 1, <<>>, <<>>, <<>>)

(***************************************************************************)
(* sort.Slice(posts, less): a permutation of posts in which no element is  *)
(* less than an earlier one.  sort.Slice promises no more (it is not a     *)
(* stable sort), so every such permutation is a possible outcome.          *)
(***************************************************************************)
\* the comparison reversed: oldest first
lessOldestFirst(a, b) == After(b.Date, a.Date)

less(a, b) == After(a.Date, b.Date)

IndexPermutations(n) == { p \in [1..n -> 1..n] : \A x, y \in 1..n : p[x] = p[y] => x = y }

sortSlice(posts) ==
    { q \in { [x \in 1..Len(posts) |-> posts[p[x]]] : p \in IndexPermutations(Len(posts)) } :
        \A x, y \in 1..Len(q) : x < y => ~less(q[y], q[x]) }

(***************************************************************************)
(* The render targets.  Each returns the new contents of public/, the      *)
(* error and the paths it created, in order.  The fail arguments are the   *)
(* environment's choice of the I/O or template fault, if any.              *)
(***************************************************************************)
gaID == <<"G", "-", "D", "Z", "4", "K", "V", "N", "J", "V", "C", "R">>

\* os.Create followed by a template execution that fails midway
Partial == [kind |-> "partial"]

Put(pub, path, data) ==
    [x \in DOMAIN pub \cup {path} |-> IF x = path THEN data ELSE pub[x]]

postPath(post) == Join(publicDir, post.Slug \o htmlExt)
indexPath   == Join(publicDir, <<"i", "n", "d", "e", "x">> \o htmlExt)
feedPath    == Join(publicDir, <<"f", "e", "e", "d", ".", "x", "m", "l">>)
sitemapPath == Join(publicDir, <<"s", "i", "t", "e", "m", "a", "p", ".", "x", "m", "l">>)

RECURSIVE generatePostPagesLoop(_, _, _, _, _, _)
generatePostPagesLoop(pub, posts, k, failAt, fail, wr) ==
    IF k > Len(posts)
    THEN [public |-> pub, err |-> NoErr, written |-> wr]
    ELSE LET post == posts[k]
             path == postPath(post)
         IN  IF k = failAt /\ fail = "create"
             THEN [public |-> pub, err |-> [kind |-> "create post page", path |-> path],
                   written |-> wr]
             ELSE IF k = failAt /\ fail = "render"
             THEN [public |-> Put(pub, path, Partial),
                   err |-> [kind |-> "render post", slug |-> post.Slug],
                   written |-> Append(wr, path)]
             ELSE generatePostPagesLoop(Put(pub, path, [kind |-> "post", Post |-> post, GAID |-> gaID]),
                                        posts, k + 1, failAt, fail, Append(wr, path))

generatePostPages(pub, posts, failAt, fail) ==
    generatePostPagesLoop(pub, posts, 1, failAt, fail, <<>>)

generateIndex(pub, posts, fail) ==
    IF fail = "create"
    THEN [public |-> pub, err |-> [kind |-> "create index"], written |-> <<>>]
    ELSE IF fail = "render"
    THEN [public |-> Put(pub, indexPath, Partial), err |-> [kind |-> "render index"],
          written |-> <<indexPath>>]
    ELSE [public |-> Put(pub, indexPath, [kind |-> "index", Posts |-> posts, GAID |-> gaID]),
          err |-> NoErr, written |-> <<indexPath>>]

\* the feed stamped with the time of the build
feedUpdatedNow(posts, now) == now

feedUpdated(posts, now) == IF Len(posts) > 0 THEN posts[1].Date ELSE now

generateFeed(pub, posts, now, fail) ==
    IF fail = "create"
    THEN [public |-> pub, err |-> [kind |-> "create feed"], written |-> <<>>]
    ELSE IF fail = "render"
    THEN [public |-> Put(pub, feedPath, Partial), err |-> [kind |-> "render feed"],
          written |-> <<feedPath>>]
    ELSE [public |-> Put(pub, feedPath,
                         [kind |-> "feed", Updated |-> FormatRFC3339(feedUpdated(posts, now)),
                          Posts |-> posts]),
          err |-> NoErr, written |-> <<feedPath>>]

sitemapLastUpdated(posts, now) ==
    IF Len(posts) > 0 THEN DateISO(posts[1]) ELSE FormatDate(now)

generateSitemap(pub, posts, now, fail) ==
    IF fail = "create"
    THEN [public |-> pub, err |-> [kind |-> "create sitemap"], written |-> <<>>]
    ELSE IF fail = "render"
    THEN [public |-> Put(pub, sitemapPath, Partial), err |-> [kind |-> "render sitemap"],
          written |-> <<sitemapPath>>]
    ELSE [public |-> Put(pub, sitemapPath,
                         [kind |-> "sitemap", LastUpdated |-> sitemapLastUpdated(posts, now),
                          Posts |-> posts]),
          err |-> NoErr, written |-> <<sitemapPath>>]

RECURSIVE copyStaticFilesLoop(_, _, _, _, _)
copyStaticFilesLoop(pub, files, k, failAt, wr) ==
    IF k > Len(files)
    THEN [public |-> pub, err |-> NoErr, written |-> wr]
    ELSE LET entry == files[k]
             src == Join(staticDir, entry.name)
             dst == Join(publicDir, entry.name)
         IN  IF entry.isDir
             THEN copyStaticFilesLoop(pub, files, k + 1, failAt, wr)
             ELSE IF ~entry.readable
             THEN [public |-> pub, err |-> [kind |-> "read static file", path |-> src],
                   written |-> wr]
             ELSE IF k = failAt
             THEN [public |-> pub, err |-> [kind |-> "write static file", path |-> dst],
                   written |-> wr]
             ELSE copyStaticFilesLoop(Put(pub, dst, [kind |-> "static", name |-> entry.name]),
                                      files, k + 1, failAt, Append(wr, dst))

copyStaticFiles(pub, files, dirOK, failAt) ==
    IF ~dirOK
    THEN [public |-> pub, err |-> [kind |-> "read static dir", path |-> staticDir],
          written |-> <<>>]
    ELSE copyStaticFilesLoop(pub, files, 1, failAt, <<>>)

Faults == {"none", "create", "render"}

(***************************************************************************)
(* The state: the source directories, the output directory, and the        *)
(* position of main with its locals.                                       *)
(***************************************************************************)
VARIABLES
    entries,    \* the listing of posts/
    static,     \* the listing of static/
    public,     \* the files of public/: path -> data
    pc,         \* the statement of main that runs next, "done" or "aborted"
    posts,      \* main's posts
    err,        \* the error main panicked with, or NoErr
    returned,   \* what parsePosts returned: [posts, err, read, parsed]
    stages,     \* the stages of main started in this run, in order
    written,    \* the paths of public/ created in this run, in order
    run         \* the number of this run

vars == <<entries, static, public, pc, posts, err, returned, stages, written, run>>

NotReturned == [posts |-> <<>>, err |-> NoErr, read |-> <<>>, parsed |-> <<>>]

EmptyDir == [x \in {} |-> Partial]

Start ==
    /\ pc = "MkdirAll"
    /\ posts = <<>>
    /\ err = NoErr
    /\ returned = NotReturned
    /\ stages = <<>>
    /\ written = <<>>

Init ==
    /\ entries \in Listings(MaxEntries)
    /\ static \in StaticListings
    /\ public = EmptyDir
    /\ run = 1
    /\ Start

\* panic(err)
Abort(stage, e) ==
    /\ pc' = "aborted"
    /\ err' = e
    /\ stages' = Append(stages, stage)

Proceed(stage, next) ==
    /\ pc' = next
    /\ stages' = Append(stages, stage)
    /\ UNCHANGED err

mainMkdirAll ==
    /\ pc = "MkdirAll"
    /\ \E ok \in BOOLEAN :
          IF ok THEN Proceed("MkdirAll", "parsePosts")
                ELSE Abort("MkdirAll", [kind |-> "mkdir", path |-> publicDir])
    /\ UNCHANGED <<entries, static, public, posts, returned, written, run>>

\* main going on to sort whatever parsePosts returned
mainParsePostsKeepGoing ==
    /\ pc = "parsePosts"
    /\ \E dirOK \in BOOLEAN :
          LET r == IF dirOK THEN parsePosts(entries)
                   ELSE [posts |-> <<>>, err |-> [kind |-> "read dir", path |-> postsDir],
                         read |-> <<>>, parsed |-> <<>>]
          IN  /\ returned' = r
              /\ posts' = r.posts
              /\ Proceed("parsePosts", "sort")
    /\ UNCHANGED <<entries, static, public, written, run>>

mainParsePosts ==
    /\ pc = "parsePosts"
    /\ \E dirOK \in BOOLEAN :
          LET r == IF dirOK THEN parsePosts(entries)
                   ELSE [posts |-> <<>>, err |-> [kind |-> "read dir", path |-> postsDir],
                         read |-> <<>>, parsed |-> <<>>]
          IN  /\ returned' = r
              /\ posts' = r.posts
              /\ IF r.err = NoErr THEN Proceed("parsePosts", "sort")
                                  ELSE Abort("parsePosts", r.err)
    /\ UNCHANGED <<entries, static, public, written, run>>

mainSort ==
    /\ pc = "sort"
    /\ posts' \in sortSlice(posts)
    /\ Proceed("sort", "generatePostPages")
    /\ UNCHANGED <<entries, static, public, returned, written, run>>

Stage(stage, next, r) ==
    /\ public' = r.public
    /\ written' = written \o r.written
    /\ IF r.err = NoErr THEN Proceed(stage, next) ELSE Abort(stage, r.err)
    /\ UNCHANGED <<entries, static, posts, returned, run>>

mainGeneratePostPages ==
    /\ pc = "generatePostPages"
    /\ \E failAt \in 0..Len(posts), fail \in Faults :
          /\ (failAt = 0) = (fail = "none")
          /\ Stage("generatePostPages", "generateIndex",
                   generatePostPages(public, posts, failAt, fail))

mainGenerateIndex ==
    /\ pc = "generateIndex"
    /\ \E fail \in Faults :
          Stage("generateIndex", "generateFeed", generateIndex(public, posts, fail))

mainGenerateFeed ==
    /\ pc = "generateFeed"
    /\ \E fail \in Faults, now \in Clock :
          Stage("generateFeed", "generateSitemap", generateFeed(public, posts, now, fail))

mainGenerateSitemap ==
    /\ pc = "generateSitemap"
    /\ \E fail \in Faults, now \in Clock :
          Stage("generateSitemap", "copyStaticFiles", generateSitemap(public, posts, now, fail))

mainCopyStaticFiles ==
    /\ pc = "copyStaticFiles"
    /\ \E dirOK \in BOOLEAN, failAt \in 0..Len(static) :
          Stage("copyStaticFiles", "done", copyStaticFiles(public, static, dirOK, failAt))

Next ==
    \/ mainMkdirAll
    \/ mainParsePosts
    \/ mainSort
    \/ mainGeneratePostPages
    \/ mainGenerateIndex
    \/ mainGenerateFeed
    \/ mainGenerateSitemap
    \/ mainCopyStaticFiles

Spec == Init /\ [][Next]_vars

(***************************************************************************)
(* The program run again on changed sources: public/ is what the earlier   *)
(* run left.                                                               *)
(***************************************************************************)
MaxRuns == 2

InitRerun ==
    /\ entries \in Listings(MaxRerunEntries)
    /\ static \in StaticListings
    /\ public = EmptyDir
    /\ run = 1
    /\ Start

Rerun ==
    /\ pc \in {"done", "aborted"}
    /\ run < MaxRuns
    /\ run' = run + 1
    /\ entries' \in Listings(MaxRerunEntries)
    /\ static' \in StaticListings
    /\ pc' = "MkdirAll"
    /\ posts' = <<>>
    /\ err' = NoErr
    /\ returned' = NotReturned
    /\ stages' = <<>>
    /\ written' = <<>>
    /\ UNCHANGED public

NextRerun ==
    \/ mainMkdirAll
    \/ mainParsePosts
    \/ mainSort
    \/ mainGeneratePostPages
    \/ mainGenerateIndex
    \/ mainGenerateFeed
    \/ mainGenerateSitemap
    \/ mainCopyStaticFiles
    \/ Rerun

SpecRerun == InitRerun /\ [][NextRerun]_vars

(***************************************************************************)
(* Properties.                                                             *)
(***************************************************************************)
Ran(stage) == \E k \in 1..Len(stages) : stages[k] = stage

Succeeded(stage) ==
    \E k \in 1..Len(stages) : stages[k] = stage /\ (k < Len(stages) \/ pc # "aborted")

\* the position of the post with this slug in a collection
Position(coll, slug) == CHOOSE k \in 1..Len(coll) : coll[k].Slug = slug

\* the collections the render targets were executed with
Rendered ==
    {posts} \cup {public[x].Posts : x \in {y \in DOMAIN public :
                                            public[y].kind \in {"index", "feed", "sitemap"}}}

\* C1: once main has sorted the collection, a post with a later publish
\* date stands before every post with an earlier one, in main's posts and in
\* every collection a render target of this run was executed with.
C1_NewestFirst ==
    Succeeded("sort") =>
        \A coll \in Rendered :
            \A x, y \in 1..Len(coll) :
                After(coll[x].Date, coll[y].Date) => x < y

C1_Witness ==
    /\ pc = "done"
    /\ Len(posts) = 3
    /\ posts # returned.posts
    /\ After(posts[1].Date, posts[3].Date)

\* C2: the sort keeps posts of the same publish date in the order in which
\* parsePosts read them.
C2_StableOnTies ==
    Succeeded("sort") =>
        \A x, y \in 1..Len(returned.posts) :
            (x < y /\ returned.posts[x].Date = returned.posts[y].Date)
                => Position(posts, returned.posts[x].Slug) < Position(posts, returned.posts[y].Slug)

IsSource(entry) == ~entry.isDir /\ HasSuffix(entry.name, <<".", "m", "d">>)

\* the entries of posts/ that are markdown files, in directory order
Sources == SelectSeq(entries, IsSource)

EntryNamed(name) == CHOOSE k \in 1..Len(entries) : entries[k].name = name

DecodedTitle(entry) == yamlString(entry.content.title)

DecodedDate(entry) == yamlString(entry.content.date)

ParseFailedOn(entry) ==
    /\ returned.err.kind = "parse post"
    /\ returned.err.name = entry.name

\* C3: a front matter with no title, or with a title that is empty after
\* trimming, makes parsePost fail with the missing-title error, and every
\* post of the collection has a title that is not empty after trimming.
C3_TitleRequired ==
    /\ \A k \in 1..Len(returned.parsed) :
          LET entry == entries[EntryNamed(returned.parsed[k])] IN
          (entry.content.fm = "ok" /\ TrimSpace(DecodedTitle(entry)) = <<>>)
              => (ParseFailedOn(entry) /\ returned.err.cause.kind = "missing title")
    /\ \A k \in 1..Len(posts) : TrimSpace(posts[k].Title) # <<>>

\* C4 as stated: a date field that is absent or does not parse makes
\* parsePost fail with the invalid-date error carrying the raw string and
\* the filename, and no post of the collection has the zero date.
C4_InvalidDateAlways ==
    /\ \A k \in 1..Len(returned.parsed) :
          LET entry == entries[EntryNamed(returned.parsed[k])] IN
          ~dateLayoutMatches(DecodedDate(entry))
              => /\ ParseFailedOn(entry)
                 /\ returned.err.cause =
                        [kind |-> "invalid date", raw |-> DecodedDate(entry), file |-> entry.name]
    /\ \A k \in 1..Len(posts) : ~IsZero(posts[k].Date)

IsCalendarDate(t) ==
    /\ t.month \in 1..12
    /\ t.day \in 1..daysIn(t.month, t.year)
    /\ t.sod = 0

\* C4, amended: a date field that is absent or does not parse makes
\* parsePost fail; when the front matter decodes and its title is not the
\* empty string, the failure is the invalid-date error carrying the raw
\* string and the filename; every post of the collection has the calendar
\* date its date field spells.
C4_InvalidDate ==
    /\ \A k \in 1..Len(returned.parsed) :
          LET entry == entries[EntryNamed(returned.parsed[k])] IN
          ~dateLayoutMatches(DecodedDate(entry))
              => /\ ParseFailedOn(entry)
                 /\ (entry.content.fm = "ok" /\ DecodedTitle(entry) # <<>>)
                        => returned.err.cause =
                               [kind |-> "invalid date", raw |-> DecodedDate(entry),
                                file |-> entry.name]
    /\ \A k \in 1..Len(posts) :
          /\ IsCalendarDate(posts[k].Date)
          /\ FormatDate(posts[k].Date)
                 = DecodedDate(entries[EntryNamed(posts[k].Slug \o <<".", "m", "d">>)])

C4_Witness ==
    /\ pc = "aborted"
    /\ Len(returned.parsed) = 2
    /\ returned.err.kind = "parse post"
    /\ returned.err.cause.kind = "invalid date"
    /\ returned.err.cause.raw = <<>>

Names(seq) == [k \in 1..Len(seq) |-> seq[k].name]

Bad(entry) == ~entry.readable \/ parsePost(entry.name, entry.content).err # NoErr

\* the position in Sources of the first file that cannot be read or parsed,
\* 0 when there is none
FirstBad ==
    IF \E k \in 1..Len(Sources) : Bad(Sources[k])
    THEN CHOOSE k \in 1..Len(Sources) :
             Bad(Sources[k]) /\ \A j \in 1..(k - 1) : ~Bad(Sources[j])
    ELSE 0

\* C5: when a source file cannot be read or parsed, parsePosts returns an
\* error naming the first such file and no posts, main aborts, and no file
\* after that one was read or parsed.
C5_FailFast ==
    (Ran("parsePosts") /\ returned.err.kind # "read dir" /\ FirstBad # 0) =>
        LET entry == Sources[FirstBad] IN
        /\ pc = "aborted"
        /\ err = returned.err
        /\ returned.posts = <<>>
        /\ posts = <<>>
        /\ IF entry.readable
           THEN /\ returned.err.kind = "parse post"
                /\ returned.err.name = entry.name
                /\ returned.err.cause = parsePost(entry.name, entry.content).err
                /\ returned.parsed = Names(SubSeq(Sources, 1, FirstBad))
           ELSE /\ returned.err.kind = "read post"
                /\ returned.err.path = postsDir \o <<"/">> \o entry.name
                /\ returned.parsed = Names(SubSeq(Sources, 1, FirstBad - 1))
        /\ returned.read = Names(SubSeq(Sources, 1, FirstBad))

C5_Witness ==
    /\ pc = "aborted"
    /\ Len(Sources) = 3
    /\ FirstBad = 2
    /\ returned.err.kind = "parse post"
    /\ Len(returned.parsed) = 2

StageOrder ==
    <<"MkdirAll", "parsePosts", "sort", "generatePostPages", "generateIndex",
      "generateFeed", "generateSitemap", "copyStaticFiles">>

IsPrefix(a, b) == Len(a) <= Len(b) /\ SubSeq(b, 1, Len(a)) = a

IsFile(entry) == ~entry.isDir

\* the paths a complete run creates, in order
ExpectedWrites ==
    [k \in 1..Len(posts) |-> publicDir \o <<"/">> \o posts[k].Slug \o htmlExt]
        \o <<indexPath, feedPath, sitemapPath>>
        \o [k \in 1..Len(SelectSeq(static, IsFile)) |->
                publicDir \o <<"/">> \o SelectSeq(static, IsFile)[k].name]

\* the number of paths created once the first n stages have completed
Quota(n) ==
    IF n <= 3 THEN 0
    ELSE IF n <= 7 THEN Len(posts) + (n - 4)
    ELSE Len(ExpectedWrites)

C6_Order ==
    /\ IsPrefix(stages, StageOrder)
    /\ (pc = "aborted") = (err # NoErr)
    /\ pc = "done" => stages = StageOrder
    /\ pc \notin {"aborted", "done"} => pc = StageOrder[Len(stages) + 1]
    /\ IsPrefix(written, ExpectedWrites)
    /\ Len(stages) > 0 => Len(written) >= Quota(Len(stages) - 1)
    /\ Len(written) <= Quota(Len(stages))
    /\ pc # "aborted" => Len(written) = Quota(Len(stages))
    /\ returned.err # NoErr => (pc = "aborted" /\ written = <<>>)
    /\ run = 1 => DOMAIN public = {written[k] : k \in 1..Len(written)}

\* C6: the stages of main start in the order MkdirAll, parsePosts, sort,
\* post pages, index, feed, sitemap, static files, each only after all the
\* earlier ones have succeeded and written their files; a failed stage
\* aborts the run, after which nothing more is written; a run whose parse
\* failed has written nothing.
C6_StagedPipeline ==
    /\ []C6_Order
    /\ [][pc = "aborted" => (public' = public /\ written' = written /\ stages' = stages)]_vars

C6_Witness ==
    /\ pc = "aborted"
    /\ Len(posts) = 2
    /\ Len(stages) = 6
    /\ Len(written) = 4
    /\ public[feedPath] = Partial

NowStrings(Format(_)) == {Format(n) : n \in Clock}

\* the latest publish date of a non-empty collection
NewestDate(coll) ==
    CHOOSE d \in {coll[k].Date : k \in 1..Len(coll)} :
        \A k \in 1..Len(coll) : ~After(coll[k].Date, d)

\* C7: the feed's Updated and the sitemap's LastUpdated spell the publish
\* date of the newest post when there are posts and the current time when
\* there are none, and neither target fails for want of posts.
C7_Updated ==
    /\ Succeeded("generateFeed") =>
          LET feed == public[feedPath] IN
          /\ feed.kind = "feed"
          /\ feed.Posts = posts
          /\ IF Len(posts) > 0
             THEN feed.Updated = FormatRFC3339(NewestDate(posts))
             ELSE feed.Updated \in NowStrings(FormatRFC3339)
          /\ feed.Updated \in NowStrings(FormatRFC3339) => posts = <<>>
    /\ Succeeded("generateSitemap") =>
          LET sitemap == public[sitemapPath] IN
          /\ sitemap.kind = "sitemap"
          /\ sitemap.Posts = posts
          /\ IF Len(posts) > 0
             THEN sitemap.LastUpdated = FormatDate(NewestDate(posts))
             ELSE sitemap.LastUpdated \in NowStrings(FormatDate)
          /\ sitemap.LastUpdated \in NowStrings(FormatDate) => posts = <<>>
    /\ (pc = "generateFeed" /\ posts = <<>>) =>
          \A now \in Clock : generateFeed(public, posts, now, "none").err = NoErr
    /\ (pc = "generateSitemap" /\ posts = <<>>) =>
          \A now \in Clock : generateSitemap(public, posts, now, "none").err = NoErr

C7_Witness ==
    /\ pc = "done"
    /\ Len(posts) = 2
    /\ After(returned.posts[2].Date, returned.posts[1].Date)
    /\ public[feedPath].Updated = FormatRFC3339(returned.posts[2].Date)
    /\ public[sitemapPath].LastUpdated = FormatDate(returned.posts[2].Date)

\* what the stages write into an empty public/ when nothing fails
CleanBuild(now) ==
    LET pages   == generatePostPages(EmptyDir, posts, 0, "none").public
        index   == generateIndex(pages, posts, "none").public
        feed    == generateFeed(index, posts, now, "none").public
        sitemap == generateSitemap(feed, posts, now, "none").public
    IN  copyStaticFiles(sitemap, static, TRUE, 0).public

\* C8: after a successful build public/ holds what a build of the current
\* sources into an empty directory produces, whatever an earlier run left.
C8_FullRegeneration ==
    pc = "done" => \E now \in Clock : public = CleanBuild(now)

\* C9: the slug of every parsed post, with ".md" appended, is the name of
\* the file it was parsed from.
C9_SlugIsFilenameStem ==
    /\ returned.err = NoErr =>
          /\ Len(returned.posts) = Len(returned.parsed)
          /\ \A k \in 1..Len(returned.posts) :
                returned.posts[k].Slug \o <<".", "m", "d">> = returned.parsed[k]
    /\ \A k \in 1..Len(posts) :
          \E j \in 1..Len(Sources) : posts[k].Slug \o <<".", "m", "d">> = Sources[j].name

C9_Witness ==
    /\ pc = "done"
    /\ Len(posts) = 2
    /\ \E k \in 1..2 : posts[k].Slug = <<"B">>
    /\ \E k \in 1..2 : posts[k].Slug = <<"a", ".", "m", "d">>

\* C10: a successful parsePosts returns one post for each entry of posts/
\* that is a regular file with a name ending in ".md", in directory order,
\* and no other post.
C10_OnePostPerMarkdownFile ==
    (Ran("parsePosts") /\ returned.err = NoErr) =>
        /\ Len(returned.posts) = Len(Sources)
        /\ \A k \in 1..Len(Sources) :
              /\ returned.posts[k].Slug \o <<".", "m", "d">> = Sources[k].name
              /\ returned.posts[k] = parsePost(Sources[k].name, Sources[k].content).post

C10_Witness ==
    /\ pc = "sort"
    /\ Len(entries) = 3
    /\ Len(returned.posts) = 1
    /\ \E k \in 1..3 : entries[k].isDir
    /\ \E k \in 1..3 : entries[k].name = <<"c", ".", "t", "x", "t">>

\* C11: no two posts of the collection have the same slug, so the paths
\* generatePostPages creates are pairwise different and, once it has
\* succeeded, every post's page holds that post and no other.
C11_DistinctSlugs ==
    /\ \A x, y \in 1..Len(returned.posts) :
          returned.posts[x].Slug = returned.posts[y].Slug => x = y
    /\ \A x, y \in 1..Len(posts) : posts[x].Slug = posts[y].Slug => x = y
    /\ Ran("generatePostPages") =>
          \A x, y \in 1..Len(written) :
              (x <= Len(posts) /\ y <= Len(posts) /\ written[x] = written[y]) => x = y
    /\ Succeeded("generatePostPages") =>
          \A k \in 1..Len(posts) :
              LET path == publicDir \o <<"/">> \o posts[k].Slug \o <<".", "h", "t", "m", "l">>
              IN  /\ path \in DOMAIN public
                  /\ public[path].kind = "post"
                  /\ public[path].Post = posts[k]

C11_Witness ==
    /\ pc = "generateIndex"
    /\ Len(posts) = 3
    /\ Len(written) = 3
    /\ \E k \in 1..3 : posts[k].Slug = <<"a">>
    /\ \E k \in 1..3 : posts[k].Slug = <<"a", ".", "m", "d">>
    /\ Cardinality(DOMAIN public) = 3

====
